---- MODULE Spec2Model ----
(***************************************************************************)
(* Model of src/vs/workbench/services/backup/node/backupFileService.ts:    *)
(* BackupFilesModel (the in-memory index of backups) and BackupFileService *)
(* (the coordinator that queues writes and deletes per backup location).   *)
(*                                                                         *)
(* The host is single threaded with asynchronous I/O.  A step of the model *)
(* is one synchronous run of the program: a public call, the continuation  *)
(* of a call that waited for `ready`, or the arrival of an I/O result.     *)
(***************************************************************************)
EXTENDS Integers, Sequences, FiniteSets, TLC

\* ---------------------------------------------------------------- bounds
MaxCalls == 2        \* public calls issued during one service lifetime

\* ------------------------------------------------------------ input sets
\* A resource is <<scheme, fsPath>>.
Resources == {<<"file", "/a">>, <<"untitled", "/b">>}
\* Text contents, as sequences of characters.
Contents == {<<"x", "x">>, <<"y", "y">>}
\* `versionId?: number`: a number, or omitted.
Undefined == -1
Versions == {0, 1}
VersionArgs == Versions \cup {Undefined}
\* The constructor's backupWorkspacePath: "" when hot exit has no backup path.
WorkspacePaths == {"", "/backups"}
NoRes == <<"", "">>
Null == <<"", "", <<"", "">>>>

\* -------------------------------------------------------- pure functions
META_MARKER == "\n"

\* resource.toString(): scheme, ":" and the path, kept as one value.
UriToString(resource) == <<resource[1], ":", resource[2]>>

\* crypto.createHash('md5').update(resource.fsPath).digest('hex'): the
\* digest of a path, kept as a value that names the path it digests.
hashPath(resource) == <<"md5", resource[2]>>

backupEnabled(path) == path # ""

\* Variant: a location is built without asking whether backups are enabled.
getBackupResourceUnchecked(path, resource) ==
    <<path, resource[1], hashPath(resource)>>

\* A backup location is <<root, scheme, hash>>; Null when backups are disabled.
getBackupResource(path, resource) ==
    IF ~backupEnabled(path) THEN Null
    ELSE <<path, resource[1], hashPath(resource)>>

\* `${resource.toString()}${META_MARKER}${content}`
Frame(resource, content) == <<UriToString(resource), META_MARKER>> \o content

\* BackupFilesModel.has
has(c, key, versionId) ==
    IF key \notin DOMAIN c THEN FALSE
    ELSE IF versionId # Undefined THEN versionId = c[key]
    ELSE TRUE

\* Variant: the version id is not stored.
addWithoutVersion(c, key, versionId) ==
    [k \in DOMAIN c \cup {key} |-> IF k = key THEN 0 ELSE c[k]]

\* BackupFilesModel.add(resource, versionId = 0)
add(c, key, versionId) ==
    [k \in DOMAIN c \cup {key} |->
        IF k = key THEN (IF versionId = Undefined THEN 0 ELSE versionId) ELSE c[k]]

\* BackupFilesModel.remove
remove(c, key) == [k \in DOMAIN c \ {key} |-> c[k]]

\* BackupFilesModel.clear
clear(c) == [k \in {} |-> 0]

\* BackupFilesModel.count
count(c) == Cardinality(DOMAIN c)

\* ------------------------------------------------------------------ state
VARIABLES
    backupWorkspacePath, \* constructor argument
    isShuttingDown,      \* BackupFileService.isShuttingDown
    cache,               \* BackupFilesModel.cache: location -> version id
    scanPc,              \* position of BackupFilesModel.resolve; "done" = ready resolved
    pendingSchemas,      \* scheme directories whose readdir has not returned
    scanFailed,          \* some directory read of the scan failed
    found,               \* locations the startup scan added to the index
    disk,                \* files under the backup root: location -> content
    queues,              \* ResourceQueue: key -> [outstanding, runningPromises]
    calls,               \* the public calls so far, in call order
    writeCount           \* updateContent calls received by the file service

vars == <<backupWorkspacePath, isShuttingDown, cache, scanPc, pendingSchemas,
          scanFailed, found, disk, queues, calls, writeCount>>

ready == scanPc = "done"

EmptyMap == [k \in {} |-> 0]

Locations(path) == {getBackupResource(path, r) : r \in Resources}

\* What a prior run can have left under the root: nothing, or a backup of
\* every resource, the one of an untitled resource cut short before the
\* marker (the run ended while it was being written).
PriorFiles == {{}, Resources}

Truncated == {r \in Resources : r[1] = "untitled"}

PriorDisk(path, rs) ==
    [l \in {getBackupResource(path, r) : r \in rs} |->
        LET r == CHOOSE r \in rs : getBackupResource(path, r) = l
        IN IF r \in Truncated THEN <<UriToString(r)>> ELSE Frame(r, <<"x", "x">>)]

\* constructor: isShuttingDown = false, a new ResourceQueue, ready = init().
\* init(): with backups disabled the model is resolved at once.
Init ==
    /\ backupWorkspacePath \in WorkspacePaths
    /\ isShuttingDown = FALSE
    /\ cache = EmptyMap
    /\ scanPc = IF backupEnabled(backupWorkspacePath) THEN "readRoot" ELSE "done"
    /\ pendingSchemas = {}
    /\ scanFailed = FALSE
    /\ found = {}
    /\ \E d \in PriorFiles :
          disk = IF backupEnabled(backupWorkspacePath)
                 THEN PriorDisk(backupWorkspacePath, d) ELSE EmptyMap
    /\ queues = EmptyMap
    /\ calls = <<>>
    /\ writeCount = 0


\* ---------------------------------------------------------------- helpers
Put(f, k, v) == [x \in DOMAIN f \cup {k} |-> IF x = k THEN v ELSE f[x]]

Drop(f, k) == [x \in DOMAIN f \ {k} |-> f[x]]

Finished == {"ok", "noop", "err"}

CallIds == 1..Len(calls)

\* A callback registered on `ready` runs as soon as `ready` is resolved, in
\* registration order, before any later call or I/O result is handled.
Waiters == {j \in CallIds : calls[j].st = "await"}

Settled == ~(ready /\ Waiters # {})

NextWaiter(j) == ready /\ j \in Waiters /\ \A i \in Waiters : j <= i

NewCall(op, res, content, ver, st) ==
    [op |-> op, res |-> res, content |-> content, ver |-> ver, key |-> Null,
     st |-> st, fs |-> "none", phase |-> 0, reads |-> {}, ret |-> Null]

CanCall == Settled /\ Len(calls) < MaxCalls

LocOf(j) == getBackupResource(backupWorkspacePath, calls[j].res)

\* Variant: the callback runs within the call whether `ready` is resolved
\* or not.
AwaitReadyNot(cs, then) == then

\* The call cs[j] waits for `ready`; with `ready` resolved its callback
\* `then` runs within the call.
AwaitReady(cs, then) ==
    IF ready THEN then
    ELSE /\ calls' = cs
         /\ UNCHANGED <<cache, queues, writeCount>>

\* ------------------------------------------------- startup scan (resolve)
\* pfs.readDirsInDir(backupRoot) returns the scheme directories.
ReadRootOk ==
    /\ scanPc = "readRoot"
    /\ LET backupSchemas == {l[2] : l \in DOMAIN disk}
       IN /\ pendingSchemas' = backupSchemas
          /\ scanPc' = IF backupSchemas = {} THEN "done" ELSE "readSchemas"
    /\ UNCHANGED <<backupWorkspacePath, isShuttingDown, cache, scanFailed, found,
                   disk, queues, calls, writeCount>>

\* Variant: the error of the root read is passed on, `ready` is rejected.
ReadRootFailRejects ==
    /\ scanPc = "readRoot"
    /\ scanPc' = "failed"
    /\ scanFailed' = TRUE
    /\ UNCHANGED <<backupWorkspacePath, isShuttingDown, cache, pendingSchemas,
                   found, disk, queues, calls, writeCount>>

\* The root is missing or unreadable: `error => this`.
ReadRootFail ==
    /\ scanPc = "readRoot"
    /\ scanPc' = "done"
    /\ scanFailed' = TRUE
    /\ UNCHANGED <<backupWorkspacePath, isShuttingDown, cache, pendingSchemas,
                   found, disk, queues, calls, writeCount>>

\* TPromise.join settles when every readdir has returned.
JoinPc(left) == IF left = {} THEN "done" ELSE "readSchemas"

\* Variant: only the first scheme directory listed is remembered.
ReadSchemaOkFirstOnly(backupSchema) ==
    /\ scanPc = "readSchemas"
    /\ backupSchema \in pendingSchemas
    /\ LET backupHashes == IF found = {}
                           THEN {l \in DOMAIN disk : l[2] = backupSchema} ELSE {}
       IN /\ cache' = [k \in DOMAIN cache \cup backupHashes |->
                          IF k \in backupHashes THEN add(cache, k, Undefined)[k]
                          ELSE cache[k]]
          /\ found' = found \cup backupHashes
    /\ pendingSchemas' = pendingSchemas \ {backupSchema}
    /\ scanPc' = JoinPc(pendingSchemas')
    /\ UNCHANGED <<backupWorkspacePath, isShuttingDown, scanFailed, disk, queues,
                   calls, writeCount>>

\* pfs.readdir(backupSchemaPath) returns the hashes; each is add()ed.
ReadSchemaOk(backupSchema) ==
    /\ scanPc = "readSchemas"
    /\ backupSchema \in pendingSchemas
    /\ LET backupHashes == {l \in DOMAIN disk : l[2] = backupSchema}
       IN /\ cache' = [k \in DOMAIN cache \cup backupHashes |->
                          IF k \in backupHashes THEN add(cache, k, Undefined)[k]
                          ELSE cache[k]]
          /\ found' = found \cup backupHashes
    /\ pendingSchemas' = pendingSchemas \ {backupSchema}
    /\ scanPc' = JoinPc(pendingSchemas')
    /\ UNCHANGED <<backupWorkspacePath, isShuttingDown, scanFailed, disk, queues,
                   calls, writeCount>>

ReadSchemaFail(backupSchema) ==
    /\ scanPc = "readSchemas"
    /\ backupSchema \in pendingSchemas
    /\ scanFailed' = TRUE
    /\ pendingSchemas' = pendingSchemas \ {backupSchema}
    /\ scanPc' = JoinPc(pendingSchemas')
    /\ UNCHANGED <<backupWorkspacePath, isShuttingDown, cache, found, disk, queues,
                   calls, writeCount>>

\* ------------------------------------------- per-key queue (ResourceQueue)
maxDegreeOfParallelism == 1

NewQueue == [outstanding |-> <<>>, runningPromises |-> 0]

queueFor(qs, key) == IF key \in DOMAIN qs THEN qs[key] ELSE NewQueue

\* queue(): the operation starts at once when the queue is idle.
StartsAtOnce(qs, key) == queueFor(qs, key).runningPromises < maxDegreeOfParallelism

Enqueue(qs, key, j) ==
    LET q == queueFor(qs, key)
    IN IF StartsAtOnce(qs, key)
       THEN Put(qs, key, [q EXCEPT !.runningPromises = @ + 1])
       ELSE Put(qs, key, [q EXCEPT !.outstanding = Append(@, j)])

\* The operation the queue starts when the running one settles (0: none).
NextInQueue(qs, key) ==
    IF qs[key].outstanding # <<>> /\ qs[key].runningPromises - 1 < maxDegreeOfParallelism
    THEN Head(qs[key].outstanding) ELSE 0

\* The running operation settled, with success or failure alike.
Settle(qs, key) ==
    LET q == qs[key]
        nxt == NextInQueue(qs, key)
    IN IF nxt # 0
       THEN Put(qs, key, [outstanding |-> Tail(q.outstanding),
                           runningPromises |-> q.runningPromises])
       ELSE IF q.runningPromises = 1 /\ q.outstanding = <<>>
            THEN Drop(qs, key)
            ELSE Put(qs, key, [q EXCEPT !.runningPromises = @ - 1])

\* A settled call keeps its arguments' identity and its result; the content,
\* the queue key and the write position are dropped with the closure.
Resolved(c, st, fs) ==
    [c EXCEPT !.st = st, !.fs = fs, !.content = <<>>, !.key = Null, !.phase = 0]

\* Call j's queued operation settled with result st; the next one starts.
QueueDone(j, st, fs) ==
    LET key == calls[j].key
        nxt == NextInQueue(queues, key)
    IN /\ calls' = [i \in DOMAIN calls |->
                      IF i = j THEN Resolved(calls[i], st, fs)
                      ELSE IF i = nxt THEN [calls[i] EXCEPT !.st = "io"]
                      ELSE calls[i]]
       /\ queues' = Settle(queues, key)
       /\ writeCount' = writeCount +
              (IF nxt # 0 /\ calls[nxt].op = "backup" THEN 1 ELSE 0)

\* Call cs[j] submits its operation to the queue of `key`.
Submit(cs, j, key) ==
    /\ queues' = Enqueue(queues, key, j)
    /\ calls' = [cs EXCEPT ![j].key = key,
                          ![j].st = IF StartsAtOnce(queues, key) THEN "io" ELSE "queued"]
    /\ writeCount' = writeCount +
           (IF StartsAtOnce(queues, key) /\ cs[j].op = "backup" THEN 1 ELSE 0)


\* ------------------------------------------------------- backupResource
\* Variant: every write gets a queue of its own.
ThenBackupOwnQueue(cs, j) ==
    LET backupResource == getBackupResource(backupWorkspacePath, cs[j].res)
    IN /\ IF backupResource = Null \/ has(cache, backupResource, cs[j].ver)
          THEN /\ calls' = [cs EXCEPT ![j] = Resolved(@, "noop", "none")]
               /\ UNCHANGED <<queues, writeCount>>
          ELSE Submit(cs, j, <<"", "new Queue", <<"", ToString(j)>>>>)
       /\ UNCHANGED cache

\* Variant: the index entry is added when the write is submitted.
ThenBackupAddsAtOnce(cs, j) ==
    LET backupResource == getBackupResource(backupWorkspacePath, cs[j].res)
    IN IF backupResource = Null \/ has(cache, backupResource, cs[j].ver)
       THEN /\ calls' = [cs EXCEPT ![j] = Resolved(@, "noop", "none")]
            /\ UNCHANGED <<cache, queues, writeCount>>
       ELSE /\ Submit(cs, j, backupResource)
            /\ cache' = add(cache, backupResource, cs[j].ver)

\* ready.then(model => ...): skip when disabled or when the index has the
\* version; otherwise queue the write under the backup location.
ThenBackup(cs, j) ==
    LET backupResource == getBackupResource(backupWorkspacePath, cs[j].res)
    IN /\ IF backupResource = Null \/ has(cache, backupResource, cs[j].ver)
          THEN /\ calls' = [cs EXCEPT ![j] = Resolved(@, "noop", "none")]
               /\ UNCHANGED <<queues, writeCount>>
          ELSE Submit(cs, j, backupResource)
       /\ UNCHANGED cache

\* Variant: no shutdown check.
CallBackupUnchecked(resource, content, versionId) ==
    /\ CanCall
    /\ AwaitReady(
          Append(calls, NewCall("backup", resource, content, versionId, "await")),
          ThenBackup(
            Append(calls, NewCall("backup", resource, content, versionId, "await")),
            Len(calls) + 1))
    /\ UNCHANGED <<backupWorkspacePath, isShuttingDown, scanPc, pendingSchemas,
                   scanFailed, found, disk>>

\* Synchronous part: the shutdown check, then the wait for `ready`.
CallBackup(resource, content, versionId) ==
    /\ CanCall
    /\ IF isShuttingDown
       THEN /\ calls' = Append(calls, NewCall("backup", resource, <<>>, versionId, "noop"))
            /\ UNCHANGED <<cache, queues, writeCount>>
       ELSE AwaitReady(
              Append(calls, NewCall("backup", resource, content, versionId, "await")),
              ThenBackup(
                Append(calls, NewCall("backup", resource, content, versionId, "await")),
                Len(calls) + 1))
    /\ UNCHANGED <<backupWorkspacePath, isShuttingDown, scanPc, pendingSchemas,
                   scanFailed, found, disk>>

ResumeBackup(j) ==
    /\ NextWaiter(j)
    /\ calls[j].op = "backup"
    /\ ThenBackup(calls, j)
    /\ UNCHANGED <<backupWorkspacePath, isShuttingDown, scanPc, pendingSchemas,
                   scanFailed, found, disk>>

\* fileService.updateContent writes the framed content in two parts; the
\* first part truncates the file.
FirstPart(framed) == SubSeq(framed, 1, Len(framed) - 1)

Overlay(file, framed) ==
    [i \in 1..(IF Len(file) > Len(framed) THEN Len(file) ELSE Len(framed)) |->
        IF i > Len(framed) THEN file[i]
        ELSE IF i = Len(framed) \/ i > Len(file) THEN framed[i]
        ELSE file[i]]

Running(j, op) == Settled /\ j \in CallIds /\ calls[j].op = op /\ calls[j].st = "io"

WriteFirst(j) ==
    /\ Running(j, "backup") /\ calls[j].phase = 0
    /\ disk' = Put(disk, LocOf(j), FirstPart(Frame(calls[j].res, calls[j].content)))
    /\ calls' = [calls EXCEPT ![j].phase = 1]
    /\ UNCHANGED <<backupWorkspacePath, isShuttingDown, cache, scanPc, pendingSchemas,
                   scanFailed, found, queues, writeCount>>

\* The write completes: `.then(() => model.add(backupResource, versionId))`.
\* A file removed meanwhile stays removed (the write went to the open handle).
WriteDone(j) ==
    /\ Running(j, "backup") /\ calls[j].phase = 1
    /\ disk' = IF LocOf(j) \in DOMAIN disk
               THEN Put(disk, LocOf(j),
                        Overlay(disk[LocOf(j)], Frame(calls[j].res, calls[j].content)))
               ELSE disk
    /\ cache' = add(cache, LocOf(j), calls[j].ver)
    /\ QueueDone(j, "ok", "ok")
    /\ UNCHANGED <<backupWorkspacePath, isShuttingDown, scanPc, pendingSchemas,
                   scanFailed, found>>

\* Variant: a failed write leaves its queue as it is, nothing is started.
WriteFailBlocksQueue(j) ==
    /\ Running(j, "backup")
    /\ calls' = [calls EXCEPT ![j] = Resolved(@, "err", "fail")]
    /\ UNCHANGED <<backupWorkspacePath, isShuttingDown, cache, scanPc, pendingSchemas,
                   scanFailed, found, disk, queues, writeCount>>

\* Variant: the index entry is added whether the write succeeded or not.
WriteFailStillAdds(j) ==
    /\ Running(j, "backup")
    /\ cache' = add(cache, LocOf(j), calls[j].ver)
    /\ QueueDone(j, "err", "fail")
    /\ UNCHANGED <<backupWorkspacePath, isShuttingDown, scanPc, pendingSchemas,
                   scanFailed, found, disk>>

\* The write fails, before or after its first part: the promise rejects.
WriteFail(j) ==
    /\ Running(j, "backup")
    /\ QueueDone(j, "err", "fail")
    /\ UNCHANGED <<backupWorkspacePath, isShuttingDown, cache, scanPc, pendingSchemas,
                   scanFailed, found, disk>>

\* ------------------------------------------------ discardResourceBackup
\* Variant: the delete is queued under the resource, not its backup location.
ThenDiscardKeyedByResource(cs, j) ==
    /\ Submit(cs, j, <<"", cs[j].res[1], <<"", cs[j].res[2]>>>>)
    /\ UNCHANGED cache

\* Variant: the delete is queued only for a location the index holds.
ThenDiscardIfKnown(cs, j) ==
    LET backupResource == getBackupResource(backupWorkspacePath, cs[j].res)
    IN /\ IF backupResource = Null \/ ~has(cache, backupResource, Undefined)
          THEN /\ calls' = [cs EXCEPT ![j] = Resolved(@, "noop", "none")]
               /\ UNCHANGED <<queues, writeCount>>
          ELSE Submit(cs, j, backupResource)
       /\ UNCHANGED cache

\* ready.then(model => ...): queue the delete under the backup location.
ThenDiscard(cs, j) ==
    LET backupResource == getBackupResource(backupWorkspacePath, cs[j].res)
    IN /\ IF backupResource = Null
          THEN /\ calls' = [cs EXCEPT ![j] = Resolved(@, "noop", "none")]
               /\ UNCHANGED <<queues, writeCount>>
          ELSE Submit(cs, j, backupResource)
       /\ UNCHANGED cache

CallDiscard(resource) ==
    /\ CanCall
    /\ AwaitReady(Append(calls, NewCall("discard", resource, <<>>, Undefined, "await")),
                  ThenDiscard(
                    Append(calls, NewCall("discard", resource, <<>>, Undefined, "await")),
                    Len(calls) + 1))
    /\ UNCHANGED <<backupWorkspacePath, isShuttingDown, scanPc, pendingSchemas,
                   scanFailed, found, disk>>

ResumeDiscard(j) ==
    /\ NextWaiter(j)
    /\ calls[j].op = "discard"
    /\ ThenDiscard(calls, j)
    /\ UNCHANGED <<backupWorkspacePath, isShuttingDown, scanPc, pendingSchemas,
                   scanFailed, found, disk>>

\* Variant: the index entry is not removed.
DelDoneKeepsEntry(j) ==
    /\ Running(j, "discard")
    /\ disk' = Drop(disk, LocOf(j))
    /\ QueueDone(j, "ok", "ok")
    /\ UNCHANGED <<backupWorkspacePath, isShuttingDown, cache, scanPc, pendingSchemas,
                   scanFailed, found>>

\* pfs.del(backupResource.fsPath).then(() => model.remove(backupResource))
DelDone(j) ==
    /\ Running(j, "discard")
    /\ disk' = Drop(disk, LocOf(j))
    /\ cache' = remove(cache, LocOf(j))
    /\ QueueDone(j, "ok", "ok")
    /\ UNCHANGED <<backupWorkspacePath, isShuttingDown, scanPc, pendingSchemas,
                   scanFailed, found>>

\* The delete fails: the file stays and the promise rejects (pfs.del of a
\* path that does not exist succeeds).
DelFail(j) ==
    /\ Running(j, "discard")
    /\ LocOf(j) \in DOMAIN disk
    /\ QueueDone(j, "err", "fail")
    /\ UNCHANGED <<backupWorkspacePath, isShuttingDown, cache, scanPc, pendingSchemas,
                   scanFailed, found, disk>>

\* -------------------------------------------- discardAllWorkspaceBackups
\* ready.then(model => ...): pfs.del(backupWorkspacePath) starts, outside
\* the per-key queues.
ThenDiscardAll(cs, j) ==
    /\ calls' = [cs EXCEPT ![j] =
                    IF backupEnabled(backupWorkspacePath)
                    THEN [@ EXCEPT !.st = "io"]
                    ELSE Resolved(@, "noop", "none")]
    /\ UNCHANGED <<cache, queues, writeCount>>

\* Variant: the shutdown flag is set only when backups are enabled.
CallDiscardAllFlagIfEnabled ==
    /\ CanCall
    /\ isShuttingDown' = (isShuttingDown \/ backupEnabled(backupWorkspacePath))
    /\ AwaitReady(Append(calls, NewCall("discardAll", NoRes, <<>>, Undefined, "await")),
                  ThenDiscardAll(
                    Append(calls, NewCall("discardAll", NoRes, <<>>, Undefined, "await")),
                    Len(calls) + 1))
    /\ UNCHANGED <<backupWorkspacePath, scanPc, pendingSchemas, scanFailed, found, disk>>

\* Synchronous part: the shutdown flag is set before the wait for `ready`.
CallDiscardAll ==
    /\ CanCall
    /\ isShuttingDown' = TRUE
    /\ AwaitReady(Append(calls, NewCall("discardAll", NoRes, <<>>, Undefined, "await")),
                  ThenDiscardAll(
                    Append(calls, NewCall("discardAll", NoRes, <<>>, Undefined, "await")),
                    Len(calls) + 1))
    /\ UNCHANGED <<backupWorkspacePath, scanPc, pendingSchemas, scanFailed, found, disk>>

ResumeDiscardAll(j) ==
    /\ NextWaiter(j)
    /\ calls[j].op = "discardAll"
    /\ ThenDiscardAll(calls, j)
    /\ UNCHANGED <<backupWorkspacePath, isShuttingDown, scanPc, pendingSchemas,
                   scanFailed, found, disk>>

\* The recursive delete succeeded: `.then(() => model.clear())`.
RootDelDone(j) ==
    /\ Running(j, "discardAll")
    /\ disk' = EmptyMap
    /\ cache' = clear(cache)
    /\ calls' = [calls EXCEPT ![j] = Resolved(@, "ok", "ok")]
    /\ UNCHANGED <<backupWorkspacePath, isShuttingDown, scanPc, pendingSchemas,
                   scanFailed, found, queues, writeCount>>

\* Variant: the index is cleared whether the delete succeeded or not.
RootDelFailClears(j, gone) ==
    /\ Running(j, "discardAll")
    /\ gone \subseteq DOMAIN disk
    /\ disk' = [l \in DOMAIN disk \ gone |-> disk[l]]
    /\ cache' = clear(cache)
    /\ calls' = [calls EXCEPT ![j] = Resolved(@, "err", "fail")]
    /\ UNCHANGED <<backupWorkspacePath, isShuttingDown, scanPc, pendingSchemas,
                   scanFailed, found, queues, writeCount>>

\* The recursive delete failed, having removed the files at `gone`.
RootDelFail(j, gone) ==
    /\ Running(j, "discardAll")
    /\ gone \subseteq DOMAIN disk
    /\ disk' = [l \in DOMAIN disk \ gone |-> disk[l]]
    /\ calls' = [calls EXCEPT ![j] = Resolved(@, "err", "fail")]
    /\ UNCHANGED <<backupWorkspacePath, isShuttingDown, cache, scanPc, pendingSchemas,
                   scanFailed, found, queues, writeCount>>

\* ------------------------------------------ loadBackupResource, hasBackups
\* What loadBackupResource(resource) returns from the index c.
loadBackupResource(c, path, resource) ==
    IF getBackupResource(path, resource) = Null THEN Null
    ELSE IF has(c, getBackupResource(path, resource), Undefined)
         THEN getBackupResource(path, resource)
         ELSE Null

ThenLoad(cs, j) ==
    /\ calls' = [cs EXCEPT ![j].st = "ok",
                   ![j].ret = loadBackupResource(cache, backupWorkspacePath, cs[j].res)]
    /\ UNCHANGED <<cache, queues, writeCount>>

CallLoad(resource) ==
    /\ CanCall
    /\ AwaitReady(Append(calls, NewCall("load", resource, <<>>, Undefined, "await")),
                  ThenLoad(
                    Append(calls, NewCall("load", resource, <<>>, Undefined, "await")),
                    Len(calls) + 1))
    /\ UNCHANGED <<backupWorkspacePath, isShuttingDown, scanPc, pendingSchemas,
                   scanFailed, found, disk>>

ResumeLoad(j) ==
    /\ NextWaiter(j)
    /\ calls[j].op = "load"
    /\ ThenLoad(calls, j)
    /\ UNCHANGED <<backupWorkspacePath, isShuttingDown, scanPc, pendingSchemas,
                   scanFailed, found, disk>>

\* What hasBackups() returns from the index c.
hasBackups(c) == count(c) > 0

ThenHasBackups(cs, j) ==
    /\ calls' = [cs EXCEPT ![j].st = "ok", ![j].ret = hasBackups(cache)]
    /\ UNCHANGED <<cache, queues, writeCount>>

CallHasBackups ==
    /\ CanCall
    /\ AwaitReady(Append(calls, NewCall("hasBackups", NoRes, <<>>, Undefined, "await")),
                  ThenHasBackups(
                    Append(calls, NewCall("hasBackups", NoRes, <<>>, Undefined, "await")),
                    Len(calls) + 1))
    /\ UNCHANGED <<backupWorkspacePath, isShuttingDown, scanPc, pendingSchemas,
                   scanFailed, found, disk>>

ResumeHasBackups(j) ==
    /\ NextWaiter(j)
    /\ calls[j].op = "hasBackups"
    /\ ThenHasBackups(calls, j)
    /\ UNCHANGED <<backupWorkspacePath, isShuttingDown, scanPc, pendingSchemas,
                   scanFailed, found, disk>>

\* ---------------------------------------------- getWorkspaceFileBackups
\* Uri.parse of an origin written by resource.toString().
UriParse(s) == <<s[1], s[3]>>

\* The file holds the marker after its origin line.
HasMarker(file) == Len(file) >= 2 /\ file[2] = META_MARKER

\* readToMatchingString(fsPath, META_MARKER, 2000, 10000) has a result: the
\* file can be opened and the marker is found.
ReadsToMarker(files, loc) == loc \in DOMAIN files /\ HasMarker(files[loc])

\* model.get() is read once; one readToMatchingString per entry is started.
ThenList(cs, j) ==
    /\ calls' = [cs EXCEPT ![j] =
                    IF DOMAIN cache = {}
                    THEN [@ EXCEPT !.st = "ok", !.fs = "ok", !.ret = {}]
                    ELSE [@ EXCEPT !.st = "io", !.reads = DOMAIN cache, !.ret = {}]]
    /\ UNCHANGED <<cache, queues, writeCount>>

CallList ==
    /\ CanCall
    /\ AwaitReady(Append(calls, NewCall("list", NoRes, <<>>, Undefined, "await")),
                  ThenList(
                    Append(calls, NewCall("list", NoRes, <<>>, Undefined, "await")),
                    Len(calls) + 1))
    /\ UNCHANGED <<backupWorkspacePath, isShuttingDown, scanPc, pendingSchemas,
                   scanFailed, found, disk>>

ResumeList(j) ==
    /\ NextWaiter(j)
    /\ calls[j].op = "list"
    /\ ThenList(calls, j)
    /\ UNCHANGED <<backupWorkspacePath, isShuttingDown, scanPc, pendingSchemas,
                   scanFailed, found, disk>>

\* What TPromise.join(readPromises) settles to when the last read has
\* returned: the parsed origins, or an error when any read failed.
JoinReads(c, fs, ret) ==
    IF fs = "fail"
    THEN [c EXCEPT !.reads = {}, !.st = "err", !.fs = "fail", !.ret = Null]
    ELSE [c EXCEPT !.reads = {}, !.st = "ok", !.fs = "ok", !.ret = ret]

\* The read of one entry returns.
ListRead(j, loc) ==
    /\ Running(j, "list")
    /\ loc \in calls[j].reads
    /\ LET good == ReadsToMarker(disk, loc)
           left == calls[j].reads \ {loc}
           fs == IF good THEN calls[j].fs ELSE "fail"
           ret == IF good THEN calls[j].ret \cup {UriParse(disk[loc][1])}
                  ELSE calls[j].ret
       IN calls' = [calls EXCEPT ![j] =
                       IF left # {}
                       THEN [@ EXCEPT !.reads = left, !.fs = fs, !.ret = ret]
                       ELSE JoinReads(@, fs, ret)]
    /\ UNCHANGED <<backupWorkspacePath, isShuttingDown, cache, scanPc,
                   pendingSchemas, scanFailed, found, disk, queues, writeCount>>

\* ------------------------------------------------------------ behaviours
Next ==
    \/ ReadRootOk
    \/ ReadRootFail
    \/ \E s \in pendingSchemas : ReadSchemaOk(s)
    \/ \E s \in pendingSchemas : ReadSchemaFail(s)
    \/ \E r \in Resources, c \in Contents, v \in VersionArgs : CallBackup(r, c, v)
    \/ \E r \in Resources : CallDiscard(r)
    \/ CallDiscardAll
    \/ \E r \in Resources : CallLoad(r)
    \/ CallHasBackups
    \/ CallList
    \/ \E j \in CallIds : ResumeBackup(j)
    \/ \E j \in CallIds : ResumeDiscard(j)
    \/ \E j \in CallIds : ResumeDiscardAll(j)
    \/ \E j \in CallIds : ResumeLoad(j)
    \/ \E j \in CallIds : ResumeHasBackups(j)
    \/ \E j \in CallIds : ResumeList(j)
    \/ \E j \in CallIds : \E loc \in calls[j].reads : ListRead(j, loc)
    \/ \E j \in CallIds : WriteFirst(j)
    \/ \E j \in CallIds : WriteDone(j)
    \/ \E j \in CallIds : WriteFail(j)
    \/ \E j \in CallIds : DelDone(j)
    \/ \E j \in CallIds : DelFail(j)
    \/ \E j \in CallIds : RootDelDone(j)
    \/ \E j \in CallIds, gone \in SUBSET DOMAIN disk : RootDelFail(j, gone)

Spec == Init /\ [][Next]_vars

\* A directory read of the startup scan returns.
ScanStep ==
    \/ ReadRootOk
    \/ ReadRootFail
    \/ \E s \in pendingSchemas : ReadSchemaOk(s)
    \/ \E s \in pendingSchemas : ReadSchemaFail(s)

\* A callback registered on `ready` runs.
ResumeStep ==
    \E j \in CallIds :
        \/ ResumeBackup(j) \/ ResumeDiscard(j) \/ ResumeDiscardAll(j)
        \/ ResumeLoad(j) \/ ResumeHasBackups(j) \/ ResumeList(j)

\* A write, delete or read that was started returns.
IOStep ==
    \E j \in CallIds :
        \/ WriteFirst(j) \/ WriteDone(j) \/ WriteFail(j)
        \/ DelDone(j) \/ DelFail(j)
        \/ RootDelDone(j)
        \/ \E gone \in SUBSET DOMAIN disk : RootDelFail(j, gone)
        \/ \E loc \in calls[j].reads : ListRead(j, loc)

\* Every I/O operation that was started eventually returns and the event
\* loop runs every callback that is due.
LiveSpec == Spec /\ WF_vars(ScanStep) /\ WF_vars(ResumeStep) /\ WF_vars(IOStep)


\* ================================================================ claims
QueueOps == {"backup", "discard"}

Started == {"io", "ok", "err"}

\* The queued operations of backup location loc whose I/O is in flight.
InFlight(loc) ==
    {j \in CallIds : calls[j].op \in QueueOps /\ calls[j].st = "io" /\ LocOf(j) = loc}

\* Nothing is pending: `ready` is resolved and every call has settled.
Quiet == ready /\ \A i \in CallIds : calls[i].st \in Finished

\* The step issues a new public call.
IsCall == Len(calls') = Len(calls) + 1

NewRec == calls'[Len(calls')]

VersionOrZero(v) == IF v = Undefined THEN 0 ELSE v

\* C1: the writes and deletes of one backup location run one at a time and
\* in submission order: never two of them in flight together, and none has
\* started while an earlier call's operation for that location is unsettled.
C1_OneAtATimeInOrder ==
    /\ \A loc \in Locations(backupWorkspacePath) : Cardinality(InFlight(loc)) <= 1
    /\ \A i \in CallIds : \A j \in CallIds :
          ( /\ i < j
            /\ calls[i].op \in QueueOps /\ calls[j].op \in QueueOps
            /\ LocOf(i) # Null /\ LocOf(i) = LocOf(j)
            /\ calls[j].st \in Started )
          => calls[i].st \in Finished

\* A write in flight with a delete for the same location waiting behind it.
C1_Witness ==
    \E i \in CallIds : \E j \in CallIds :
        /\ i < j /\ LocOf(i) = LocOf(j)
        /\ calls[i].op = "backup" /\ calls[i].st = "io"
        /\ calls[j].op = "discard" /\ calls[j].st = "queued"

\* The whole framed contents (origin, marker, content) a backup file of
\* location loc can hold.
WholeFrames(loc) ==
    {<<UriToString(r), META_MARKER>> \o c :
        r \in {x \in Resources : getBackupResource(backupWorkspacePath, x) = loc},
        c \in Contents}

\* C2: writes for one resource never tear the file: a write that completes
\* leaves exactly its own framed content on disk, and a file that a write
\* has completed on and no write is working on (none in flight, none failed)
\* holds one whole framed content, so with several writes of one resource
\* the file holds one of them in full.
C2_WriteLeavesOwnFrame ==
    /\ [][\A j \in CallIds :
             ( /\ calls[j].op = "backup" /\ calls[j].st = "io"
               /\ calls'[j].st = "ok"
               /\ LocOf(j) \in DOMAIN disk' )
             => disk'[LocOf(j)] =
                    <<UriToString(calls[j].res), META_MARKER>> \o calls[j].content]_vars
    /\ [](\A loc \in DOMAIN disk :
             ( /\ \E j \in CallIds : calls[j].op = "backup" /\ LocOf(j) = loc
                                      /\ calls[j].st = "ok"
               /\ \A j \in CallIds :
                    ~(calls[j].op = "backup" /\ LocOf(j) = loc
                      /\ calls[j].st \in {"io", "err"}) )
             => disk[loc] \in WholeFrames(loc))

\* Two writes of one resource with different content are pending together,
\* the first of them half written.
C2_Witness ==
    \E i \in CallIds : \E j \in CallIds :
        /\ i < j /\ calls[i].res = calls[j].res
        /\ calls[i].op = "backup" /\ calls[i].st = "io" /\ calls[i].phase = 1
        /\ calls[j].op = "backup" /\ calls[j].st = "queued"
        /\ calls[i].content # calls[j].content
        /\ LocOf(i) \in DOMAIN disk

\* The last call is a backup of `resource` at `versionId` that succeeded;
\* only reads followed it.
LastBackupOk(resource, versionId) ==
    \E i \in CallIds :
        /\ calls[i].op = "backup" /\ calls[i].st = "ok"
        /\ calls[i].res = resource /\ calls[i].ver = versionId
        /\ \A k \in CallIds : k > i => calls[k].op \in {"load", "hasBackups"}

\* C3: backupResource(R, content, v) called again with the same v, after the
\* first call succeeded, writes nothing: the write count, the index and the
\* disk stay as they are and the call settles as a skip.
C3_SameVersionSkips ==
    [][( /\ IsCall /\ Quiet /\ ~isShuttingDown
         /\ NewRec.op = "backup"
         /\ LastBackupOk(NewRec.res, NewRec.ver) )
       => ( /\ NewRec.st = "noop"
            /\ writeCount' = writeCount
            /\ cache' = cache /\ disk' = disk /\ queues' = queues )]_vars

\* The second call with the same version has been skipped after one write.
C3_Witness ==
    /\ Len(calls) = 2 /\ writeCount = 1
    /\ calls[1].op = "backup" /\ calls[1].st = "ok" /\ calls[1].ver = 1
    /\ calls[2].op = "backup" /\ calls[2].st = "noop" /\ calls[2].ver = 1
    /\ calls[2].res = calls[1].res
    /\ ~isShuttingDown


\* C4: when a backupResource write completes, the index holds the location
\* at the call's version (0 when omitted) and loadBackupResource returns the
\* location, also to a later call; and once the scan is over the index gains
\* or changes an entry only in the step in which a write to that location
\* completes successfully, never before.
C4_IndexAddedOnSuccess ==
    [][ /\ \A j \in CallIds :
             ( /\ calls[j].op = "backup" /\ calls[j].st = "io"
               /\ calls'[j].st = "ok" )
             => /\ LocOf(j) \in DOMAIN cache'
                /\ cache'[LocOf(j)] = VersionOrZero(calls[j].ver)
                /\ loadBackupResource(cache', backupWorkspacePath, calls[j].res)
                       = LocOf(j)
        /\ \A loc \in Locations(backupWorkspacePath) :
             ( /\ ready
               /\ loc \in DOMAIN cache'
               /\ (loc \notin DOMAIN cache \/ cache'[loc] # cache[loc]) )
             => \E j \in CallIds :
                   /\ calls[j].op = "backup" /\ LocOf(j) = loc
                   /\ calls[j].st = "io" /\ calls[j].phase = 1
                   /\ calls'[j].st = "ok" /\ calls'[j].fs = "ok"
        /\ ( /\ IsCall /\ Quiet /\ ~isShuttingDown
             /\ NewRec.op = "load"
             /\ \E v \in VersionArgs : LastBackupOk(NewRec.res, v) )
           => NewRec.ret = getBackupResource(backupWorkspacePath, NewRec.res) ]_vars

\* A backup without version id succeeded and a later load returned its
\* location, stored at version 0.
C4_Witness ==
    /\ Len(calls) = 2
    /\ calls[1].op = "backup" /\ calls[1].st = "ok" /\ calls[1].ver = Undefined
    /\ calls[2].op = "load" /\ calls[2].res = calls[1].res
    /\ calls[2].ret = LocOf(1) /\ LocOf(1) # Null
    /\ cache[LocOf(1)] = 0
    /\ found = {}

\* C5: once discardResourceBackup(R) has succeeded, the backup file and the
\* index entry of R's location are gone and loadBackupResource(R) returns
\* none, until a backupResource(R) call issued after the discard writes.
C5_DiscardRemoves ==
    \A j \in CallIds :
        (calls[j].op = "discard" /\ calls[j].st = "ok")
        => /\ LocOf(j) \in DOMAIN cache
                => \E k \in CallIds : /\ k > j /\ calls[k].op = "backup"
                                      /\ calls[k].res = calls[j].res
                                      /\ calls[k].st = "ok"
           /\ LocOf(j) \in DOMAIN disk
                => \E k \in CallIds : /\ k > j /\ calls[k].op = "backup"
                                      /\ calls[k].res = calls[j].res
                                      /\ calls[k].st \in Started
           /\ loadBackupResource(cache, backupWorkspacePath, calls[j].res) # Null
                => \E k \in CallIds : /\ k > j /\ calls[k].op = "backup"
                                      /\ calls[k].res = calls[j].res
                                      /\ calls[k].st = "ok"

\* A backup succeeded and the discard after it succeeded too.
C5_Witness ==
    /\ Len(calls) = 2
    /\ calls[1].op = "backup" /\ calls[1].st = "ok"
    /\ calls[2].op = "discard" /\ calls[2].st = "ok" /\ calls[2].res = calls[1].res
    /\ LocOf(2) \notin DOMAIN disk /\ LocOf(2) \notin DOMAIN cache

\* The last call is a backup of `resource` at `versionId` whose write failed,
\* and no backup of the resource has succeeded.
LastBackupFailed(resource, versionId) ==
    /\ calls # <<>>
    /\ calls[Len(calls)].op = "backup" /\ calls[Len(calls)].fs = "fail"
    /\ calls[Len(calls)].res = resource /\ calls[Len(calls)].ver = versionId
    /\ \A i \in CallIds :
          ~(calls[i].op = "backup" /\ calls[i].res = resource /\ calls[i].st = "ok")

\* C6: a queued write or delete that fails rejects its caller's promise and
\* leaves the index as it was; a backupResource repeated with the same
\* version id after a failed write is not skipped: it submits a write.
C6_FailureKeepsIndex ==
    [][ /\ \A j \in CallIds :
             ( /\ calls[j].op \in QueueOps /\ calls[j].st = "io"
               /\ calls'[j].fs = "fail" )
             => (calls'[j].st = "err" /\ cache' = cache)
        /\ ( /\ IsCall /\ Quiet /\ ~isShuttingDown
             /\ NewRec.op = "backup"
             /\ LastBackupFailed(NewRec.res, NewRec.ver) )
           => (NewRec.st = "io" /\ writeCount' = writeCount + 1) ]_vars

\* A write failed and the same call, repeated, is writing.
C6_Witness ==
    /\ Len(calls) = 2
    /\ calls[1].op = "backup" /\ calls[1].st = "err" /\ calls[1].fs = "fail"
    /\ calls[2].op = "backup" /\ calls[2].st = "io"
    /\ calls[2].res = calls[1].res /\ calls[2].ver = calls[1].ver
    /\ writeCount = 2

\* C7: a backupResource call issued after discardAllWorkspaceBackups() was
\* called is a no-op: it settles at once, submits no write and leaves the
\* disk and the index alone; as a successful discardAllWorkspaceBackups()
\* leaves no file and an empty index, hasBackups() is false after the pair.
C7_NoBackupAfterDiscardAll ==
    /\ [](\A j \in CallIds :
            ( /\ calls[j].op = "backup"
              /\ \E i \in CallIds : i < j /\ calls[i].op = "discardAll" )
            => (calls[j].st = "noop" /\ calls[j].fs = "none"))
    /\ [][ /\ (IsCall /\ isShuttingDown /\ NewRec.op = "backup")
              => /\ NewRec.st = "noop"
                 /\ UNCHANGED <<cache, disk, queues, writeCount>>
           /\ \A j \in CallIds :
                ( /\ calls[j].op = "discardAll" /\ calls[j].st = "io"
                  /\ calls'[j].st = "ok" )
                => (~hasBackups(cache') /\ disk' = EmptyMap) ]_vars

\* discardAllWorkspaceBackups() wiped a root that held backups and the
\* backupResource call after it did nothing.
C7_Witness ==
    /\ Len(calls) = 2
    /\ calls[1].op = "discardAll" /\ calls[1].st = "ok"
    /\ calls[2].op = "backup" /\ calls[2].st = "noop"
    /\ found # {}
    /\ ~hasBackups(cache) /\ disk = EmptyMap /\ writeCount = 0

\* C8: once discardAllWorkspaceBackups() has succeeded and every call has
\* settled, no backup file exists and the index is empty.
C8_NoResurrection ==
    ( /\ Quiet
      /\ \E j \in CallIds : calls[j].op = "discardAll" /\ calls[j].st = "ok" )
    => (disk = EmptyMap /\ cache = EmptyMap)

\* Every call so far is a read.
OnlyReads == \A j \in CallIds : calls[j].op \in {"load", "hasBackups", "list"}

\* C9: when the startup scan has read the root and every scheme directory,
\* the index holds every backup file found under the root at version 0, and
\* hasBackups() and loadBackupResource() answer accordingly.
C9_ScanFindsPriorBackups ==
    (ready /\ ~scanFailed /\ OnlyReads)
    => /\ \A loc \in DOMAIN disk :
             has(cache, loc, Undefined) /\ loc \in DOMAIN cache /\ cache[loc] = 0
       /\ disk # EmptyMap => count(cache) > 0
       /\ \A j \in CallIds :
             calls[j].st = "ok" =>
                IF calls[j].op = "hasBackups"
                THEN calls[j].ret = (disk # EmptyMap)
                ELSE LocOf(j) \in DOMAIN disk => calls[j].ret = LocOf(j)

\* The scan of a root with backups is over and hasBackups() returned true.
C9_Witness ==
    /\ ready /\ ~scanFailed /\ OnlyReads
    /\ Cardinality(DOMAIN disk) = Cardinality(Resources)
    /\ \E j \in CallIds :
          calls[j].op = "hasBackups" /\ calls[j].st = "ok" /\ calls[j].ret = TRUE

\* C10: the first backupResource call for a resource whose backup the
\* startup scan found performs a write, whatever its version id.
C10_FirstBackupAfterRestartWrites ==
    \A j \in CallIds :
        ( /\ calls[j].op = "backup"
          /\ LocOf(j) \in found
          /\ \A i \in CallIds : i < j =>
                ~(calls[i].op = "discardAll"
                  \/ (calls[i].op = "backup" /\ calls[i].res = calls[j].res)) )
        => calls[j].st # "noop"

\* C11: with no backup root configured the index is resolved empty at once
\* and the scan reads nothing; no call writes or deletes or is queued:
\* backupResource, discardResourceBackup and discardAllWorkspaceBackups
\* settle as no-ops, loadBackupResource returns none, hasBackups() false.
C11_DisabledIsNoop ==
    ~backupEnabled(backupWorkspacePath) =>
        /\ ready /\ pendingSchemas = {} /\ found = {} /\ ~scanFailed
        /\ cache = EmptyMap /\ disk = EmptyMap
        /\ queues = EmptyMap /\ writeCount = 0
        /\ \A j \in CallIds :
              /\ calls[j].op \in {"backup", "discard", "discardAll"}
                    => (calls[j].st = "noop" /\ calls[j].fs = "none")
              /\ calls[j].op = "load"
                    => (calls[j].st = "ok" /\ calls[j].ret = Null)
              /\ calls[j].op = "hasBackups"
                    => (calls[j].st = "ok" /\ calls[j].ret = FALSE)

\* Without a backup root, a backupResource call and a hasBackups() call
\* after it have both returned.
C11_Witness ==
    /\ ~backupEnabled(backupWorkspacePath)
    /\ Len(calls) = 2
    /\ calls[1].op = "backup" /\ calls[1].st = "noop"
    /\ calls[2].op = "hasBackups" /\ calls[2].ret = FALSE

\* C12: the scan runs once: its position only moves forward and once
\* `ready` is resolved nothing of it changes again.  Until then the index
\* holds only what the scan has added, no call has read the index, returned
\* a value, been queued or started I/O, and the disk is untouched: a call
\* waits (a backupResource after discardAllWorkspaceBackups returns at once
\* without touching the index).
C12_OpsAwaitInit ==
    /\ [](~ready =>
            /\ DOMAIN cache = found
            /\ queues = EmptyMap /\ writeCount = 0
            /\ \A j \in CallIds :
                  /\ calls[j].st \in {"await", "noop"}
                  /\ calls[j].st = "noop"
                        => /\ calls[j].op = "backup"
                           /\ \E i \in CallIds : i < j /\ calls[i].op = "discardAll"
                  /\ calls[j].fs = "none" /\ calls[j].reads = {}
                  /\ calls[j].ret = Null)
    /\ [][ /\ ~ready => disk' = disk
           /\ scanPc = "readSchemas" => scanPc' # "readRoot"
           /\ ready => /\ ready'
                       /\ UNCHANGED <<pendingSchemas, found, scanFailed>> ]_vars

\* The scan is reading the scheme directories and has found backups; a
\* backupResource call and a getWorkspaceFileBackups call are waiting.
C12_Witness ==
    /\ scanPc = "readSchemas" /\ found # {}
    /\ Len(calls) = 2
    /\ calls[1].op = "backup" /\ calls[1].st = "await"
    /\ calls[2].op = "list" /\ calls[2].st = "await"

\* C13: given that directory reads return, `ready` is always resolved, also
\* when a read of the scan fails, and every call that waited for it goes on.
\* At that moment the index holds only locations of files that are on disk,
\* at version 0.  The failure reaches no caller: a call fails only on a
\* failure of its own I/O, and after a failed scan hasBackups() and
\* loadBackupResource answer from the index as it is and a backupResource
\* the index does not hold submits its write.
C13_ScanFailureTolerated ==
    /\ <>ready
    /\ \A j \in 1..MaxCalls :
          (j \in CallIds /\ calls[j].st = "await")
              ~> (j \in CallIds /\ calls[j].st # "await")
    /\ [](\A j \in CallIds :
             calls[j].st = "err"
                => /\ calls[j].fs = "fail"
                   /\ calls[j].op \in {"backup", "discard", "discardAll", "list"})
    /\ [][ /\ (~ready /\ ready')
              => /\ DOMAIN cache' = found' /\ found' \subseteq DOMAIN disk
                 /\ \A l \in DOMAIN cache' : cache'[l] = 0
           /\ (IsCall /\ ready /\ scanFailed)
              => /\ NewRec.op = "hasBackups"
                      => (NewRec.st = "ok" /\ NewRec.ret = (DOMAIN cache # {}))
                 /\ NewRec.op = "load"
                      => /\ NewRec.st = "ok"
                         /\ NewRec.ret =
                              loadBackupResource(cache, backupWorkspacePath, NewRec.res)
                 /\ ( /\ NewRec.op = "backup" /\ ~isShuttingDown
                      /\ ~has(cache, getBackupResource(backupWorkspacePath, NewRec.res),
                              NewRec.ver) )
                      => NewRec.st \in {"io", "queued"} ]_vars

\* The read of one scheme directory failed, so the index holds part of the
\* backups on disk; a backup of a resource the scan missed has been written.
C13_Witness ==
    /\ ready /\ scanFailed
    /\ found # {}
    /\ \E j \in CallIds :
          /\ calls[j].op = "backup" /\ calls[j].st = "ok"
          /\ LocOf(j) \notin found

\* C14: getWorkspaceFileBackups() over an index that holds well-formed
\* backups and one whose marker cannot be found does not fail as a whole: it
\* returns the origin of every well-formed backup (only reads were issued,
\* so the files are those the scan found).
C14_ListReportsPerEntry ==
    \A j \in CallIds :
        ( /\ calls[j].op = "list" /\ calls[j].st \in Finished
          /\ OnlyReads /\ ~scanFailed
          /\ \E l \in DOMAIN disk : HasMarker(disk[l])
          /\ \E l \in DOMAIN disk : ~HasMarker(disk[l]) )
        => /\ calls[j].st = "ok"
           /\ \A l \in DOMAIN disk :
                 HasMarker(disk[l]) => UriParse(disk[l][1]) \in calls[j].ret

\* The ready.then callback of call j runs in this step: within the call
\* when `ready` is resolved, else when it is resumed.
Proceeds(j) ==
    \/ IsCall /\ ready /\ j = Len(calls')
    \/ j \in CallIds /\ calls[j].st = "await" /\ calls'[j].st # "await"

C16_FailureDoesNotBlockKey ==
    /\ \A j \in 1..MaxCalls :
          (j \in CallIds /\ calls[j].st = "queued")
              ~> (j \in CallIds /\ calls[j].st \in Finished /\ calls[j].fs # "none")
    /\ [][\A i \in CallIds :
             ( /\ calls[i].op \in QueueOps /\ calls[i].st = "io"
               /\ calls'[i].st = "err" )
             => \A j \in CallIds :
                   ( /\ calls[j].st = "queued" /\ calls[j].key = calls[i].key
                     /\ \A k \in CallIds :
                           (calls[k].st = "queued" /\ calls[k].key = calls[i].key)
                               => j <= k )
                   => calls'[j].st = "io"]_vars

\* A backup write failed and the discardResourceBackup of the same resource
\* issued after it has run and completed.
C16_Witness ==
    /\ Len(calls) = 2
    /\ calls[1].op = "backup" /\ calls[1].st = "err" /\ calls[1].fs = "fail"
    /\ calls[2].op = "discard" /\ calls[2].res = calls[1].res
    /\ calls[2].st = "ok" /\ calls[2].fs = "ok"
    /\ LocOf(2) \notin DOMAIN disk

\* No directory read, write or delete has failed so far.
NoFault == ~scanFailed /\ \A j \in CallIds : calls[j].fs # "fail"

\* The version id of the write that produced the file at loc: that of the
\* last write completed there, 0 for a file the startup scan found.
ProducedBy(loc) ==
    LET ws == {j \in CallIds : /\ calls[j].op = "backup" /\ calls[j].st = "ok"
                               /\ LocOf(j) = loc}
    IN IF ws = {} THEN 0
       ELSE VersionOrZero(calls[CHOOSE j \in ws : \A k \in ws : k <= j].ver)

\* C17: when nothing is queued or in flight (and no I/O has failed), the
\* index holds a location if and only if a backup file is at that location,
\* and the version held is that of the write that produced the file.
C17_IndexMatchesDisk ==
    (Quiet /\ NoFault)
    => \A loc \in Locations(backupWorkspacePath) :
          /\ loc \in DOMAIN cache <=> loc \in DOMAIN disk
          /\ loc \in DOMAIN cache => cache[loc] = ProducedBy(loc)

\* C18: when the delete of the backup root fails, the caller's promise is
\* rejected and the index stays as it was; the index is cleared in the step
\* in which the delete succeeds.  A discardAllWorkspaceBackups() called
\* after a failed one starts the delete of the root again.
C18_RootDeleteFailureKeepsIndex ==
    [][ /\ \A j \in CallIds :
             (calls[j].op = "discardAll" /\ calls[j].st = "io")
             => /\ calls'[j].fs = "fail"
                     => (calls'[j].st = "err" /\ cache' = cache)
                /\ calls'[j].st = "ok"
                     => (calls'[j].fs = "ok" /\ cache' = EmptyMap)
        /\ \A j \in 1..MaxCalls :
             ( /\ Proceeds(j)
               /\ calls'[j].op = "discardAll"
               /\ \E i \in CallIds :
                     i < j /\ calls[i].op = "discardAll" /\ calls[i].st = "err" )
             => calls'[j].st = "io" ]_vars

\* The delete of a root with backups failed, the index still holds them,
\* and the delete of a second discardAllWorkspaceBackups() is under way.
C18_Witness ==
    /\ Len(calls) = 2
    /\ calls[1].op = "discardAll" /\ calls[1].st = "err" /\ calls[1].fs = "fail"
    /\ calls[2].op = "discardAll" /\ calls[2].st = "io"
    /\ found # {} /\ DOMAIN cache = found

\* The backupResource and discardResourceBackup calls on resource r so far.
CallsOn(r) == {j \in CallIds : calls[j].op \in QueueOps /\ calls[j].res = r}

\* C19, its first part (the content and version part presupposes it): with
\* backups enabled, no I/O failure and no discardAllWorkspaceBackups, once
\* every backupResource and discardResourceBackup call on a resource has
\* completed, a backup file of the resource is on disk and in the index if
\* and only if the last call submitted for it was backupResource.
C19_LastSubmittedWins ==
    \A r \in Resources :
        ( /\ Quiet /\ NoFault /\ ~isShuttingDown
          /\ backupEnabled(backupWorkspacePath)
          /\ CallsOn(r) # {} )
        => LET last == CHOOSE j \in CallsOn(r) : \A k \in CallsOn(r) : k <= j
               loc == getBackupResource(backupWorkspacePath, r)
           IN (loc \in DOMAIN disk /\ loc \in DOMAIN cache)
                  <=> calls[last].op = "backup"

\* C20: isShuttingDown is true exactly when discardAllWorkspaceBackups()
\* has been called: false after construction, true from the step of the
\* call on (before `ready`, with backups disabled, after a failed delete)
\* and never false again; a backupResource call made while it is true
\* submits nothing, in the call or later.
C20_ShutdownFlagMonotonic ==
    /\ [](isShuttingDown <=> \E j \in CallIds : calls[j].op = "discardAll")
    /\ [][ /\ isShuttingDown => isShuttingDown'
           /\ (IsCall /\ isShuttingDown /\ NewRec.op = "backup")
                => /\ NewRec.st = "noop"
                   /\ writeCount' = writeCount /\ queues' = queues
           /\ \A j \in CallIds :
                (calls[j].op = "backup" /\ calls[j].st = "noop")
                    => calls'[j] = calls[j] ]_vars

\* The delete of discardAllWorkspaceBackups() failed; the flag is still set
\* and the backupResource call after it has written nothing.
C20_Witness ==
    /\ Len(calls) = 2
    /\ calls[1].op = "discardAll" /\ calls[1].st = "err"
    /\ calls[2].op = "backup" /\ calls[2].st = "noop"
    /\ isShuttingDown /\ writeCount = 0 /\ disk # EmptyMap

====
